---------------------------- MODULE Spec2Model ----------------------------
(***************************************************************************)
(* csv-sales-api: the CSV aggregation core (CSVService.ProcessSalesCSV and *)
(* CSVService.findColumnIndices) and the result writer                     *)
(* (FileService.SaveResultFile).                                           *)
(*                                                                         *)
(* Strings are TLA+ strings; a character is a string of length 1, read     *)
(* with SubSeq.  Go's int is 64 bits wide on the build's platforms; the    *)
(* model keeps two's-complement wrap-around at a scaled width of IntBits   *)
(* bits, so that overflow happens with small numbers.                      *)
(***************************************************************************)
EXTENDS Integers, Sequences, FiniteSets, TLC

(***************************************************************************)
(* Bounds of the model.                                                    *)
(***************************************************************************)
MaxRows == 3

IntBits == 8

MaxCols == 3

MaxSummaries == 3

(***************************************************************************)
(* Go's int at the scaled width.                                           *)
(***************************************************************************)
RECURSIVE Pow2(_)
Pow2(n) == IF n = 0 THEN 1 ELSE 2 * Pow2(n - 1)

MaxInt == Pow2(IntBits - 1) - 1

MinInt == 0 - Pow2(IntBits - 1)

\* two's-complement wrap-around of an int operation's exact result
Wrap(n) == ((n - MinInt) % Pow2(IntBits)) + MinInt

(***************************************************************************)
(* package strings                                                         *)
(***************************************************************************)
Char(s, i) == SubSeq(s, i, i)

UpperLetters == "ABCDEFGHIJKLMNOPQRSTUVWXYZ"

LowerLetters == "abcdefghijklmnopqrstuvwxyz"

Digits == "0123456789"

IsSpace(c) == c \in {" ", "\t", "\n", "\r", "\f"}

RECURSIVE TrimLeft(_)
TrimLeft(s) ==
    IF Len(s) = 0 THEN s
    ELSE IF IsSpace(Char(s, 1)) THEN TrimLeft(SubSeq(s, 2, Len(s)))
    ELSE s

RECURSIVE TrimRight(_)
TrimRight(s) ==
    IF Len(s) = 0 THEN s
    ELSE IF IsSpace(Char(s, Len(s))) THEN TrimRight(SubSeq(s, 1, Len(s) - 1))
    ELSE s

\* strings.TrimSpace
TrimSpace(s) == TrimRight(TrimLeft(s))

UpperSet == {Char(UpperLetters, k) : k \in 1..26}

LowerOf ==
    [c \in UpperSet |-> Char(LowerLetters, CHOOSE k \in 1..26 : Char(UpperLetters, k) = c)]

LowerChar(c) == IF c \in UpperSet THEN LowerOf[c] ELSE c

RECURSIVE ToLower(_)
\* strings.ToLower
ToLower(s) ==
    IF Len(s) = 0 THEN s
    ELSE LowerChar(Char(s, 1)) \o ToLower(SubSeq(s, 2, Len(s)))

\* strings.Contains
Contains(s, sub) ==
    \E k \in 1..(Len(s) - Len(sub) + 1) : SubSeq(s, k, k + Len(sub) - 1) = sub

(***************************************************************************)
(* package strconv                                                         *)
(***************************************************************************)
DigitSet == {Char(Digits, k) : k \in 1..10}

DigitValOf == [c \in DigitSet |-> (CHOOSE k \in 1..10 : Char(Digits, k) = c) - 1]

IsDigit(c) == c \in DigitSet

DigitVal(c) == DigitValOf[c]

AllDigits(s) == Len(s) > 0 /\ \A k \in 1..Len(s) : IsDigit(Char(s, k))

RECURSIVE DigitsValue(_)
DigitsValue(s) ==
    IF Len(s) = 0 THEN 0
    ELSE 10 * DigitsValue(SubSeq(s, 1, Len(s) - 1)) + DigitVal(Char(s, Len(s)))

\* strconv.Atoi: an optional sign, then one or more decimal digits, the
\* value within the range of int; anything else is an error.
Atoi(s) ==
    LET signed == Len(s) > 0 /\ Char(s, 1) \in {"+", "-"}
        body   == IF signed THEN SubSeq(s, 2, Len(s)) ELSE s
        neg    == signed /\ Char(s, 1) = "-"
    IN  IF ~AllDigits(body) THEN [ok |-> FALSE, val |-> 0]
        ELSE LET v == IF neg THEN 0 - DigitsValue(body) ELSE DigitsValue(body)
             IN  IF v < MinInt \/ v > MaxInt THEN [ok |-> FALSE, val |-> 0]
                 ELSE [ok |-> TRUE, val |-> v]

(***************************************************************************)
(* The input.  A file is the sequence of records encoding/csv finds in it  *)
(* (the header first; blank lines are not records).  A record is either    *)
(* tokenizable into cells, or malformed (a bare quote in an unquoted       *)
(* field), which the reader reports as a parse error.                      *)
(***************************************************************************)
Rec(cells) == [bad |-> FALSE, cells |-> cells]

BadLine == [bad |-> TRUE, cells |-> <<>>]

DataLines ==
    { Rec(<<"A", "100">>),
      Rec(<<" A ", "28">>),
      Rec(<<"a", "-5">>),
      Rec(<<"a", "+5">>),
      Rec(<<" ", "7">>),
      Rec(<<"B", "1.5">>),
      Rec(<<"", "x">>),
      Rec(<<"B", "999">>),
      Rec(<<"3", " 4\t">>),
      Rec(<<"B">>),
      Rec(<<"B", "7", "z">>),
      BadLine }

HeaderLines ==
    { Rec(<<"department", "sales">>),
      Rec(<<"Amount", " Dept ">>),
      Rec(<<"name", "age">>),
      Rec(<<"dept", "name">>) }

RECURSIVE SeqsUpTo(_, _)
\* the sequences over S of length at most n
SeqsUpTo(S, n) ==
    IF n = 0 THEN {<<>>}
    ELSE LET shorter == SeqsUpTo(S, n - 1)
         IN  shorter \cup {Append(q, x) : q \in {t \in shorter : Len(t) = n - 1}, x \in S}

Files ==
    { [exists |-> FALSE, records |-> <<>>],
      [exists |-> TRUE, records |-> <<>>],
      [exists |-> TRUE, records |-> <<BadLine>>] }
    \cup { [exists |-> TRUE, records |-> <<h>> \o rows] :
              h \in HeaderLines, rows \in SeqsUpTo(DataLines, MaxRows) }

(***************************************************************************)
(* encoding/csv: Reader.Read with the default FieldsPerRecord = 0: the     *)
(* first record fixes the number of fields, and a later record with        *)
(* another number of fields is returned with the error ErrFieldCount.      *)
(***************************************************************************)
ReaderRead(f, p, fpr) ==
    IF p >= Len(f.records)
    THEN [err |-> "EOF", record |-> <<>>, fpr |-> fpr]
    ELSE LET ln == f.records[p + 1]
         IN  IF ln.bad
             THEN [err |-> "parse", record |-> <<>>, fpr |-> fpr]
             ELSE IF fpr = 0
             THEN [err |-> "nil", record |-> ln.cells, fpr |-> Len(ln.cells)]
             ELSE IF Len(ln.cells) # fpr
             THEN [err |-> "fieldcount", record |-> ln.cells, fpr |-> fpr]
             ELSE [err |-> "nil", record |-> ln.cells, fpr |-> fpr]

(***************************************************************************)
(* CSVService.findColumnIndices.  Indices are Go's, zero-based; -1 is      *)
(* "not found".                                                            *)
(***************************************************************************)
isDepartmentColumn(colLower) ==
    \/ colLower = "department"
    \/ colLower = "department name"
    \/ Contains(colLower, "department")
    \/ colLower = "dept"

isSalesColumn(colLower) ==
    \/ colLower = "sales"
    \/ colLower = "total_sales"
    \/ colLower = "total sales"
    \/ colLower = "number of sales"
    \/ colLower = "amount"
    \/ colLower = "revenue"

\* the first-match guard left out: the last match wins
lookForDepartmentLast(departmentIdx, colLower, i) ==
    IF isDepartmentColumn(colLower) THEN i ELSE departmentIdx

\* the loop body's two assignments, for the cell at Go index i
lookForDepartment(departmentIdx, colLower, i) ==
    IF departmentIdx = -1 /\ isDepartmentColumn(colLower) THEN i ELSE departmentIdx

lookForSales(salesIdx, colLower, i) ==
    IF salesIdx = -1 /\ isSalesColumn(colLower) THEN i ELSE salesIdx

RECURSIVE scanHeader(_, _, _, _)
\* for i, col := range header, from Go index i on
scanHeader(hdr, i, departmentIdx, salesIdx) ==
    IF i >= Len(hdr) THEN <<departmentIdx, salesIdx>>
    ELSE LET colLower == ToLower(TrimSpace(hdr[i + 1]))
         IN  scanHeader(hdr, i + 1,
                        lookForDepartment(departmentIdx, colLower, i),
                        lookForSales(salesIdx, colLower, i))

\* the two checks in the other order
columnsResultSalesFirst(departmentIdx, salesIdx) ==
    IF salesIdx = -1
    THEN [departmentIndex |-> -1, salesIndex |-> -1,
          err |-> "sales column not found in CSV header"]
    ELSE IF departmentIdx = -1
    THEN [departmentIndex |-> -1, salesIndex |-> -1,
          err |-> "department column not found in CSV header"]
    ELSE [departmentIndex |-> departmentIdx, salesIndex |-> salesIdx, err |-> "nil"]

\* the two checks after the loop
columnsResult(departmentIdx, salesIdx) ==
    IF departmentIdx = -1
    THEN [departmentIndex |-> -1, salesIndex |-> -1,
          err |-> "department column not found in CSV header"]
    ELSE IF salesIdx = -1
    THEN [departmentIndex |-> -1, salesIndex |-> -1,
          err |-> "sales column not found in CSV header"]
    ELSE [departmentIndex |-> departmentIdx, salesIndex |-> salesIdx, err |-> "nil"]

findColumnIndices(hdr) ==
    LET found == scanHeader(hdr, 0, -1, -1)
    IN  columnsResult(found[1], found[2])

(***************************************************************************)
(* CSVService.ProcessSalesCSV: the state of one call, and of the caller    *)
(* that runs it on the same path a second time.                            *)
(***************************************************************************)
VARIABLES
    file,             \* the file at filePath
    run,              \* 1: the first call on filePath, 2: the second
    first,            \* what the first call returned
    pc,               \* where the call is
    handle,           \* the os.File: "none", "open" or "closed"
    closes,           \* calls of file.Close() in this call
    pos,              \* records the csv.Reader has consumed
    fieldsPerRecord,  \* the csv.Reader's FieldsPerRecord
    header,
    departmentIndex,
    salesIndex,
    departmentSales,  \* map[string]int
    rowNumber,
    warn,             \* the last warning logged: its kind and row
    result,           \* the returned []DepartmentSummary; <<>> is nil
    err,              \* the returned error
    saved,            \* SaveResultFile: the argument
    content,          \* SaveResultFile: what the result file holds
    written,          \* SaveResultFile: summaries written so far
    saveErr,          \* SaveResultFile: the returned error
    savePc,           \* SaveResultFile: where the call is
    other,            \* a concurrent call of ProcessSalesCSV: its own state
    current,          \* which of the two concurrent calls is running
    request,          \* UploadCSV: the multipart request
    upPc,             \* UploadCSV: where the handler is
    steps,            \* UploadCSV: the steps the handler has entered, in order
    responses         \* UploadCSV: what c.JSON has sent

csvVars ==
    <<file, run, first, pc, handle, closes, pos, fieldsPerRecord, header,
      departmentIndex, salesIndex, departmentSales, rowNumber, warn, result, err>>

saveVars == <<saved, content, written, saveErr, savePc>>

concVars == <<other, current>>

\* what the steps of ProcessSalesCSV, and those of SaveResultFile, leave alone
uploadVars == <<request, upPc, steps, responses>>

nonCsvVars == <<saveVars, concVars, uploadVars>>

nonSaveVars == <<csvVars, concVars, uploadVars>>

vars == <<csvVars, saveVars, concVars, uploadVars>>

NoError == [kind |-> "nil", row |-> 0, cause |-> "nil"]

NoWarning == [kind |-> "none", row |-> 0]

EmptyMap == [k \in {} |-> 0]

\* the locals of a call before it runs
Fresh ==
    /\ pc = "call"
    /\ handle = "none"
    /\ closes = 0
    /\ pos = 0
    /\ fieldsPerRecord = 0
    /\ header = <<>>
    /\ departmentIndex = -1
    /\ salesIndex = -1
    /\ departmentSales = EmptyMap
    /\ rowNumber = 0
    /\ warn = NoWarning
    /\ result = <<>>
    /\ err = NoError

SaveIdle ==
    /\ saved = <<>>
    /\ content = ""
    /\ written = 0
    /\ saveErr = "nil"
    /\ savePc = "idle"

\* the state a call of ProcessSalesCSV on file f starts with
FreshCall(f) ==
    [file |-> f, pc |-> "call", handle |-> "none", closes |-> 0, pos |-> 0,
     fieldsPerRecord |-> 0, header |-> <<>>, departmentIndex |-> -1, salesIndex |-> -1,
     departmentSales |-> EmptyMap, rowNumber |-> 0, result |-> <<>>, err |-> NoError]

\* no concurrent call
NoOtherCall == [FreshCall([exists |-> FALSE, records |-> <<>>]) EXCEPT !.pc = "none"]

ConcIdle ==
    /\ other = NoOtherCall
    /\ current = 1

\* no request is being handled
NoRequest == [hasFile |-> FALSE, filename |-> "", body |-> <<>>]

UploadIdle ==
    /\ request = NoRequest
    /\ upPc = "none"
    /\ steps = <<>>
    /\ responses = <<>>

Init ==
    /\ file \in Files
    /\ run = 1
    /\ first = [result |-> <<>>, err |-> NoError]
    /\ Fresh
    /\ SaveIdle
    /\ ConcIdle
    /\ UploadIdle

\* the file is closed only by the code that runs to the end
noDeferredClose(h, n) == [handle |-> h, closes |-> n]

\* defer file.Close(): registered once the file is open, run at every return
\* after that
deferredClose(h, n) ==
    IF h = "open" THEN [handle |-> "closed", closes |-> n + 1]
    ELSE [handle |-> h, closes |-> n]

\* return nil, err
ReturnError(e) ==
    /\ pc' = "returned"
    /\ result' = <<>>
    /\ err' = e
    /\ handle' = deferredClose(handle, closes).handle
    /\ closes' = deferredClose(handle, closes).closes

\* file, err := openFile(filePath)
OpenFile ==
    /\ pc = "call"
    /\ IF ~file.exists
       THEN /\ ReturnError([kind |-> "open", row |-> 0, cause |-> "nil"])
            /\ UNCHANGED <<file, run, first, pos, fieldsPerRecord, header, departmentIndex,
                           salesIndex, departmentSales, rowNumber, warn>>
       ELSE /\ handle' = "open"
            /\ pc' = "header"
            /\ UNCHANGED <<file, run, first, closes, pos, fieldsPerRecord, header, departmentIndex,
                           salesIndex, departmentSales, rowNumber, warn, result, err>>
    /\ UNCHANGED nonCsvVars

\* header, err := reader.Read()
ReadHeader ==
    /\ pc = "header"
    /\ LET r == ReaderRead(file, pos, fieldsPerRecord)
       IN  IF r.err # "nil"
           THEN /\ ReturnError([kind |-> "header", row |-> 0, cause |-> r.err])
                /\ pos' = IF r.err = "EOF" THEN pos ELSE pos + 1
                /\ UNCHANGED <<fieldsPerRecord, header>>
           ELSE /\ header' = r.record
                /\ fieldsPerRecord' = r.fpr
                /\ pos' = pos + 1
                /\ pc' = "columns"
                /\ UNCHANGED <<handle, closes, result, err>>
    /\ UNCHANGED <<file, run, first, departmentIndex, salesIndex, departmentSales,
                   rowNumber, warn>>
    /\ UNCHANGED nonCsvVars

\* the accumulator kept from the call before instead of made anew
carriedDepartmentSales ==
    [k \in {first.result[i].Department : i \in 1..Len(first.result)} |->
        (CHOOSE x \in {first.result[i] : i \in 1..Len(first.result)} :
            x.Department = k).TotalSales]

\* departmentSales := make(map[string]int)
newDepartmentSales == EmptyMap

\* the columns looked up lazily: a missing column is reported only after the
\* first data row has been pulled from the reader
FindColumnsAfterFirstRow ==
    /\ pc = "columns"
    /\ LET c == findColumnIndices(header)
           r == ReaderRead(file, pos, fieldsPerRecord)
       IN  IF c.err # "nil"
           THEN /\ IF r.err \in {"nil", "EOF"}
                   THEN ReturnError([kind |-> "columns", row |-> 0, cause |-> c.err])
                   ELSE ReturnError([kind |-> "row", row |-> 2, cause |-> r.err])
                /\ pos' = IF r.err = "EOF" THEN pos ELSE pos + 1
                /\ UNCHANGED <<departmentIndex, salesIndex, departmentSales, rowNumber>>
           ELSE /\ departmentIndex' = c.departmentIndex
                /\ salesIndex' = c.salesIndex
                /\ departmentSales' = EmptyMap
                /\ rowNumber' = 1
                /\ pc' = "loop"
                /\ UNCHANGED <<handle, closes, result, err, pos>>
    /\ UNCHANGED <<file, run, first, fieldsPerRecord, header, warn>>
    /\ UNCHANGED nonCsvVars

\* departmentIndex, salesIndex, err := cs.findColumnIndices(header), then the
\* accumulator and the row counter are set up
FindColumns ==
    /\ pc = "columns"
    /\ LET c == findColumnIndices(header)
       IN  IF c.err # "nil"
           THEN /\ ReturnError([kind |-> "columns", row |-> 0, cause |-> c.err])
                /\ UNCHANGED <<departmentIndex, salesIndex, departmentSales, rowNumber>>
           ELSE /\ departmentIndex' = c.departmentIndex
                /\ salesIndex' = c.salesIndex
                /\ departmentSales' = newDepartmentSales
                /\ rowNumber' = 1
                /\ pc' = "loop"
                /\ UNCHANGED <<handle, closes, result, err>>
    /\ UNCHANGED <<file, run, first, pos, fieldsPerRecord, header, warn>>
    /\ UNCHANGED nonCsvVars

(***************************************************************************)
(* The loop body, for a record the reader returned without error.          *)
(***************************************************************************)
\* len(record) <= departmentIndex || len(record) <= salesIndex
insufficientColumns(record, departmentIdx, salesIdx) ==
    Len(record) <= departmentIdx \/ Len(record) <= salesIdx

\* the group cell taken as it is
departmentUntrimmed(record, departmentIdx) == record[departmentIdx + 1]

\* department := strings.TrimSpace(record[departmentIndex])
departmentOf(record, departmentIdx) == TrimSpace(record[departmentIdx + 1])

\* salesStr := strings.TrimSpace(record[salesIndex])
salesStrOf(record, salesIdx) == TrimSpace(record[salesIdx + 1])

\* the empty check left out
neverEmptyDepartment(department) == FALSE

\* department == ""
emptyDepartment(department) == department = ""

\* departmentSales[department] += sales
addSales(m, department, sales) ==
    [k \in DOMAIN m \cup {department} |->
        IF k = department
        THEN Wrap((IF department \in DOMAIN m THEN m[department] ELSE 0) + sales)
        ELSE m[k]]

\* the accumulator and the warning after the record that became row rowNo
processRecord(record, departmentIdx, salesIdx, m, rowNo) ==
    IF insufficientColumns(record, departmentIdx, salesIdx)
    THEN [sales |-> m, warn |-> [kind |-> "insufficient columns", row |-> rowNo]]
    ELSE LET department == departmentOf(record, departmentIdx)
             salesStr   == salesStrOf(record, salesIdx)
         IN  IF emptyDepartment(department)
             THEN [sales |-> m, warn |-> [kind |-> "empty department", row |-> rowNo]]
             ELSE LET sales == Atoi(salesStr)
                  IN  IF ~sales.ok
                      THEN [sales |-> m,
                            warn |-> [kind |-> "invalid sales value", row |-> rowNo]]
                      ELSE [sales |-> addSales(m, department, sales.val), warn |-> warn]

\* rowNumber instead of rowNumber+1
failedRowOffByOne(rowNo) == rowNo

\* the row named by "failed to read CSV record at row %d"
failedRow(rowNo) == rowNo + 1

\* one iteration of the for loop: record, err := reader.Read() and what
\* follows; at io.EOF the loop is left
ReadRow ==
    /\ pc = "loop"
    /\ LET r == ReaderRead(file, pos, fieldsPerRecord)
       IN  IF r.err = "EOF"
           THEN /\ pc' = "finish"
                /\ UNCHANGED <<handle, closes, pos, departmentSales, rowNumber, warn, result, err>>
           ELSE IF r.err # "nil"
           THEN /\ ReturnError([kind |-> "row", row |-> failedRow(rowNumber),
                                cause |-> r.err])
                /\ pos' = pos + 1
                /\ UNCHANGED <<departmentSales, rowNumber, warn>>
           ELSE LET after == processRecord(r.record, departmentIndex, salesIndex,
                                           departmentSales, rowNumber + 1)
                IN  /\ rowNumber' = rowNumber + 1
                    /\ pos' = pos + 1
                    /\ departmentSales' = after.sales
                    /\ warn' = after.warn
                    /\ UNCHANGED <<pc, handle, closes, result, err>>
    /\ UNCHANGED <<file, run, first, fieldsPerRecord, header, departmentIndex, salesIndex>>
    /\ UNCHANGED nonCsvVars

\* "no sales" instead of "no departments"
noSalesTotal(m) == \A k \in DOMAIN m : m[k] = 0

\* len(departmentSales) == 0
noData(m) == Cardinality(DOMAIN m) = 0

\* the orders in which range may visit the keys of a map
RangeOrders(m) ==
    LET n == Cardinality(DOMAIN m)
    IN  {o \in [1..n -> DOMAIN m] : \A i, j \in 1..n : o[i] = o[j] => i = j}

\* for department, totalSales := range departmentSales { append }
summariesOf(m, order) ==
    [i \in 1..Len(order) |-> [Department |-> order[i], TotalSales |-> m[order[i]]]]

\* after the loop: the empty check, the conversion and the return
Finish ==
    /\ pc = "finish"
    /\ IF noData(departmentSales)
       THEN ReturnError([kind |-> "empty", row |-> 0, cause |-> "nil"])
       ELSE \E order \in RangeOrders(departmentSales) :
                /\ result' = summariesOf(departmentSales, order)
                /\ err' = NoError
                /\ pc' = "returned"
                /\ handle' = deferredClose(handle, closes).handle
                /\ closes' = deferredClose(handle, closes).closes
    /\ UNCHANGED <<file, run, first, pos, fieldsPerRecord, header, departmentIndex,
                   salesIndex, departmentSales, rowNumber, warn>>
    /\ UNCHANGED nonCsvVars

\* the caller calls ProcessSalesCSV on the same path again
CallAgain ==
    /\ pc = "returned"
    /\ run = 1
    /\ run' = 2
    /\ first' = [result |-> result, err |-> err]
    /\ pc' = "call"
    /\ handle' = "none"
    /\ closes' = 0
    /\ pos' = 0
    /\ fieldsPerRecord' = 0
    /\ header' = <<>>
    /\ departmentIndex' = -1
    /\ salesIndex' = -1
    /\ departmentSales' = EmptyMap
    /\ rowNumber' = 0
    /\ warn' = NoWarning
    /\ result' = <<>>
    /\ err' = NoError
    /\ UNCHANGED file
    /\ UNCHANGED nonCsvVars

Next ==
    \/ OpenFile
    \/ ReadHeader
    \/ FindColumns
    \/ ReadRow
    \/ Finish
    \/ CallAgain

Spec == Init /\ [][Next]_vars
(***************************************************************************)
(* findColumnIndices called on its own, as its test calls it, with a       *)
(* header drawn from the names below.                                      *)
(***************************************************************************)
HeaderNames ==
    { "department", "Department Name", " DEPT\t", "sub-department id", "depts",
      "Sales", "total_sales", "Total Sales", "Number Of Sales", " amount ", "REVENUE",
      "salesman", "name" }

NoFile == [exists |-> FALSE, records |-> <<>>]

InitCols ==
    /\ file = NoFile
    /\ run = 1
    /\ first = [result |-> <<>>, err |-> NoError]
    /\ pc = "call"
    /\ handle = "none"
    /\ closes = 0
    /\ pos = 0
    /\ fieldsPerRecord = 0
    /\ header \in SeqsUpTo(HeaderNames, MaxCols)
    /\ departmentIndex = -1
    /\ salesIndex = -1
    /\ departmentSales = EmptyMap
    /\ rowNumber = 0
    /\ warn = NoWarning
    /\ result = <<>>
    /\ err = NoError
    /\ SaveIdle
    /\ ConcIdle
    /\ UploadIdle

\* deptIndex, salesIndex, err := csvService.findColumnIndices(tt.header)
CallFindColumnIndices ==
    /\ pc = "call"
    /\ LET c == findColumnIndices(header)
       IN  /\ departmentIndex' = c.departmentIndex
           /\ salesIndex' = c.salesIndex
           /\ err' = [kind |-> IF c.err = "nil" THEN "nil" ELSE "columns",
                      row |-> 0, cause |-> c.err]
    /\ pc' = "returned"
    /\ UNCHANGED <<file, run, first, handle, closes, pos, fieldsPerRecord, header,
                   departmentSales, rowNumber, warn, result>>
    /\ UNCHANGED nonCsvVars

NextCols == CallFindColumnIndices

SpecCols == InitCols /\ [][NextCols]_vars

(***************************************************************************)
(* FileService.SaveResultFile, with summaries drawn from the values below. *)
(* A write that fails may have written any proper prefix of its string.    *)
(***************************************************************************)
RECURSIVE natString(_)
natString(n) ==
    IF n < 10 THEN Char(Digits, n + 1)
    ELSE natString(n \div 10) \o Char(Digits, (n % 10) + 1)

\* fmt's %d
formatInt(n) == IF n < 0 THEN "-" \o natString(0 - n) ELSE natString(n)

resultHeader == "Department Name,Total Number of Sales\n"

\* the group key written as a quoted CSV field
formatLineQuoted(summary) ==
    "\"" \o summary.Department \o "\"," \o formatInt(summary.TotalSales) \o "\n"

\* line := fmt.Sprintf("%s,%d\n", summary.Department, summary.TotalSales)
formatLine(summary) ==
    summary.Department \o "," \o formatInt(summary.TotalSales) \o "\n"

SummaryValues ==
    { [Department |-> d, TotalSales |-> t] : d \in {"A", "x,y"}, t \in {0, MinInt, MaxInt} }

InitSave ==
    /\ file = NoFile
    /\ run = 1
    /\ first = [result |-> <<>>, err |-> NoError]
    /\ Fresh
    /\ saved \in SeqsUpTo(SummaryValues, MaxSummaries)
    /\ content = ""
    /\ written = 0
    /\ saveErr = "nil"
    /\ savePc = "create"
    /\ ConcIdle
    /\ UploadIdle

\* file.WriteString(str) failed after a proper prefix of str
FailedWrite(str, e) ==
    /\ \E n \in 0..(Len(str) - 1) : content' = content \o SubSeq(str, 1, n)
    /\ saveErr' = e
    /\ savePc' = "returned"
    /\ UNCHANGED <<saved, written>>

\* file, err := os.Create(filePath)
CreateResultFile ==
    /\ savePc = "create"
    /\ \/ /\ saveErr' = "failed to create result file"
          /\ savePc' = "returned"
       \/ /\ savePc' = "header"
          /\ UNCHANGED saveErr
    /\ UNCHANGED <<saved, content, written>>
    /\ UNCHANGED nonSaveVars

\* file.WriteString("Department Name,Total Number of Sales\n")
WriteResultHeader ==
    /\ savePc = "header"
    /\ \/ FailedWrite(resultHeader, "failed to write CSV header")
       \/ /\ content' = content \o resultHeader
          /\ savePc' = "rows"
          /\ UNCHANGED <<saved, written, saveErr>>
    /\ UNCHANGED nonSaveVars

\* one iteration of for _, summary := range departmentSummaries
WriteResultRow ==
    /\ savePc = "rows"
    /\ written < Len(saved)
    /\ \/ FailedWrite(formatLine(saved[written + 1]), "failed to write CSV data")
       \/ /\ content' = content \o formatLine(saved[written + 1])
          /\ written' = written + 1
          /\ UNCHANGED <<saved, saveErr, savePc>>
    /\ UNCHANGED nonSaveVars

\* return filePath, nil
ReturnResultPath ==
    /\ savePc = "rows"
    /\ written = Len(saved)
    /\ savePc' = "returned"
    /\ UNCHANGED <<saved, content, written, saveErr>>
    /\ UNCHANGED nonSaveVars

NextSave ==
    \/ CreateResultFile
    \/ WriteResultHeader
    \/ WriteResultRow
    \/ ReturnResultPath

SpecSave == InitSave /\ [][NextSave]_vars

(***************************************************************************)
(* Two calls of ProcessSalesCSV on one CSVService, each on its own         *)
(* goroutine and its own path.  One call runs at a time in the model; the  *)
(* scheduler may switch between them before any step.  The locals of the   *)
(* suspended call are kept in other; the logger is the service's and is    *)
(* shared.                                                                 *)
(***************************************************************************)
MaxConcRows == 2

ConcLines == { Rec(<<"A", "100">>), Rec(<<"a", "-5">>), BadLine }

ConcFiles ==
    { [exists |-> FALSE, records |-> <<>>],
      [exists |-> TRUE, records |-> <<Rec(<<"name", "age">>), Rec(<<"A", "100">>)>>] }
    \cup { [exists |-> TRUE, records |-> <<Rec(<<"department", "sales">>)>> \o rows] :
              rows \in SeqsUpTo(ConcLines, MaxConcRows) }

\* the locals of the running call
ownState ==
    [file |-> file, pc |-> pc, handle |-> handle, closes |-> closes, pos |-> pos,
     fieldsPerRecord |-> fieldsPerRecord, header |-> header,
     departmentIndex |-> departmentIndex, salesIndex |-> salesIndex,
     departmentSales |-> departmentSales, rowNumber |-> rowNumber,
     result |-> result, err |-> err]

\* the accumulator held by the service: the call resumed finds what the
\* other call left
sharedSales == departmentSales

\* departmentSales is a local: the call resumed finds its own
resumedSales == other.departmentSales

InitConc ==
    /\ file \in ConcFiles
    /\ run = 1
    /\ first = [result |-> <<>>, err |-> NoError]
    /\ Fresh
    /\ SaveIdle
    /\ other \in {FreshCall(f) : f \in ConcFiles}
    /\ current = 1
    /\ UploadIdle

\* the scheduler suspends the running call and resumes the other one
Switch ==
    /\ other.pc \notin {"none", "returned"}
    /\ other' = ownState
    /\ current' = 3 - current
    /\ file' = other.file
    /\ pc' = other.pc
    /\ handle' = other.handle
    /\ closes' = other.closes
    /\ pos' = other.pos
    /\ fieldsPerRecord' = other.fieldsPerRecord
    /\ header' = other.header
    /\ departmentIndex' = other.departmentIndex
    /\ salesIndex' = other.salesIndex
    /\ departmentSales' = resumedSales
    /\ rowNumber' = other.rowNumber
    /\ result' = other.result
    /\ err' = other.err
    /\ UNCHANGED <<run, first, warn>>
    /\ UNCHANGED <<saveVars, uploadVars>>

NextConc ==
    \/ OpenFile
    \/ ReadHeader
    \/ FindColumns
    \/ ReadRow
    \/ Finish
    \/ Switch

SpecConc == InitConc /\ [][NextConc]_vars

(***************************************************************************)
(* UploadHandler.UploadCSV: one request.  The calls of ProcessSalesCSV and *)
(* SaveResultFile are the steps above; the handler's own steps are the     *)
(* calls, the checks of err after them and the responses.                  *)
(***************************************************************************)
MaxUploadRows == 2

StatusOK == 200

StatusBadRequest == 400

StatusInternalServerError == 500

\* filepath.Ext: the suffix from the last dot of the last path element
Ext(path) ==
    LET dots == { i \in 1..Len(path) :
                    /\ Char(path, i) = "."
                    /\ \A j \in i..Len(path) : Char(path, j) # "/" }
    IN  IF dots = {} THEN ""
        ELSE SubSeq(path, CHOOSE i \in dots : \A j \in dots : j <= i, Len(path))

\* FileService.ValidateFile: the extension decides, the MIME type only warns
ValidateFile(filename) ==
    LET ext == ToLower(Ext(filename))
    IN  IF ext # ".csv" THEN "only CSV files are allowed" ELSE "nil"

UploadNames == {"sales.csv", "SALES.CSV", "sales.csv.txt", "csv", "a.csv/b"}

UploadLines ==
    { Rec(<<"A", "100">>), Rec(<<"B", "100">>), Rec(<<"B", "x">>), BadLine }

UploadBodies ==
    { <<>>, <<Rec(<<"name", "age">>), Rec(<<"A", "100">>)>> }
    \cup { <<Rec(<<"department", "sales">>)>> \o rows :
              rows \in SeqsUpTo(UploadLines, MaxUploadRows) }

Requests ==
    { NoRequest }
    \cup { [hasFile |-> TRUE, filename |-> n, body |-> <<>>] :
              n \in {m \in UploadNames : ValidateFile(m) # "nil"} }
    \cup { [hasFile |-> TRUE, filename |-> n, body |-> b] :
              n \in {m \in UploadNames : ValidateFile(m) = "nil"}, b \in UploadBodies }

\* c.JSON(code, ...): total_departments and total_sales are fields of the
\* UploadResponse only
ErrorResponse(code) == [code |-> code, total_departments |-> 0, total_sales |-> 0]

RECURSIVE totalSalesOf(_)
\* totalSales := 0; for _, summary := range departmentSummaries { totalSales += ... }
totalSalesOf(summaries) ==
    IF summaries = <<>> THEN 0
    ELSE Wrap(totalSalesOf(SubSeq(summaries, 1, Len(summaries) - 1))
              + summaries[Len(summaries)].TotalSales)

UploadResponse(summaries) ==
    [code |-> StatusOK,
     total_departments |-> Len(summaries),
     total_sales |-> totalSalesOf(summaries)]

InitUpload ==
    /\ file = NoFile
    /\ run = 1
    /\ first = [result |-> <<>>, err |-> NoError]
    /\ pc = "idle"
    /\ handle = "none"
    /\ closes = 0
    /\ pos = 0
    /\ fieldsPerRecord = 0
    /\ header = <<>>
    /\ departmentIndex = -1
    /\ salesIndex = -1
    /\ departmentSales = EmptyMap
    /\ rowNumber = 0
    /\ warn = NoWarning
    /\ result = <<>>
    /\ err = NoError
    /\ SaveIdle
    /\ ConcIdle
    /\ request \in Requests
    /\ upPc = "getfile"
    /\ steps = <<>>
    /\ responses = <<>>

\* c.JSON(code, models.ErrorResponse{...}); return
RespondError(code) ==
    /\ responses' = Append(responses, ErrorResponse(code))
    /\ upPc' = "done"

\* file, err := c.FormFile("file")
GetFormFile ==
    /\ upPc = "getfile"
    /\ steps' = Append(steps, "getfile")
    /\ IF ~request.hasFile
       THEN RespondError(StatusBadRequest)
       ELSE /\ upPc' = "validate"
            /\ UNCHANGED responses
    /\ UNCHANGED <<request, csvVars, saveVars, concVars>>

\* if err := h.fileService.ValidateFile(file); err != nil
ValidateUpload ==
    /\ upPc = "validate"
    /\ steps' = Append(steps, "validate")
    /\ IF ValidateFile(request.filename) # "nil"
       THEN RespondError(StatusBadRequest)
       ELSE /\ upPc' = "saveupload"
            /\ UNCHANGED responses
    /\ UNCHANGED <<request, csvVars, saveVars, concVars>>

\* filePath, err := h.fileService.SaveUploadedFile(file): opening the
\* upload, creating the destination or copying may fail; otherwise the file
\* at filePath holds the upload
SaveUploadedFile ==
    /\ upPc = "saveupload"
    /\ steps' = Append(steps, "saveupload")
    /\ \/ /\ RespondError(StatusInternalServerError)
          /\ UNCHANGED file
       \/ /\ file' = [exists |-> TRUE, records |-> request.body]
          /\ upPc' = "process"
          /\ UNCHANGED responses
    /\ UNCHANGED <<run, first, pc, handle, closes, pos, fieldsPerRecord, header,
                   departmentIndex, salesIndex, departmentSales, rowNumber, warn,
                   result, err>>
    /\ UNCHANGED <<request, saveVars, concVars>>

\* departmentSummaries, err := h.csvService.ProcessSalesCSV(filePath): the call
CallProcessSalesCSV ==
    /\ upPc = "process"
    /\ pc = "idle"
    /\ steps' = Append(steps, "process")
    /\ pc' = "call"
    /\ UNCHANGED <<file, run, first, handle, closes, pos, fieldsPerRecord, header,
                   departmentIndex, salesIndex, departmentSales, rowNumber, warn,
                   result, err>>
    /\ UNCHANGED <<request, upPc, responses, saveVars, concVars>>

\* ... and the check of its err
ProcessSalesCSVReturned ==
    /\ upPc = "process"
    /\ pc = "returned"
    /\ IF err # NoError
       THEN RespondError(StatusInternalServerError)
       ELSE /\ upPc' = "saveresult"
            /\ UNCHANGED responses
    /\ UNCHANGED <<request, steps, csvVars, saveVars, concVars>>

\* resultFilePath, err := h.fileService.SaveResultFile(departmentSummaries):
\* the call
CallSaveResultFile ==
    /\ upPc = "saveresult"
    /\ savePc = "idle"
    /\ steps' = Append(steps, "saveresult")
    /\ saved' = result
    /\ savePc' = "create"
    /\ UNCHANGED <<content, written, saveErr>>
    /\ UNCHANGED <<request, upPc, responses, csvVars, concVars>>

\* ... and the check of its err
SaveResultFileReturned ==
    /\ upPc = "saveresult"
    /\ savePc = "returned"
    /\ IF saveErr # "nil"
       THEN RespondError(StatusInternalServerError)
       ELSE /\ upPc' = "respond"
            /\ UNCHANGED responses
    /\ UNCHANGED <<request, steps, csvVars, saveVars, concVars>>

\* the download URL, the total, the response and c.JSON(http.StatusOK, response)
RespondOK ==
    /\ upPc = "respond"
    /\ steps' = Append(steps, "respond")
    /\ responses' = Append(responses, UploadResponse(result))
    /\ upPc' = "done"
    /\ UNCHANGED <<request, csvVars, saveVars, concVars>>

NextUpload ==
    \/ GetFormFile
    \/ ValidateUpload
    \/ SaveUploadedFile
    \/ CallProcessSalesCSV
    \/ OpenFile
    \/ ReadHeader
    \/ FindColumns
    \/ ReadRow
    \/ Finish
    \/ ProcessSalesCSVReturned
    \/ CallSaveResultFile
    \/ CreateResultFile
    \/ WriteResultHeader
    \/ WriteResultRow
    \/ ReturnResultPath
    \/ SaveResultFileReturned
    \/ RespondOK

SpecUpload == InitUpload /\ [][NextUpload]_vars

(***************************************************************************)
(* Vocabulary of the properties, stated over the input file.               *)
(***************************************************************************)
Max(a, b) == IF a >= b THEN a ELSE b

\* the data rows of the file, and those of them the call has consumed
DataRows == SubSeq(file.records, 2, Len(file.records))

RowsRead == SubSeq(file.records, 2, pos)

HeaderCells == file.records[1].cells

\* the header can be read and both columns are found in it
HeaderResolves ==
    /\ file.exists
    /\ Len(file.records) >= 1
    /\ ~file.records[1].bad
    /\ findColumnIndices(HeaderCells).err = "nil"

\* the reader returns an error for the row: it cannot tokenize it, or the
\* row has another number of fields than the header
Unreadable(ln) == ln.bad \/ Len(ln.cells) # Len(HeaderCells)

EnoughCells(ln) == Len(ln.cells) >= Max(departmentIndex, salesIndex) + 1

GroupCell(ln) == ln.cells[departmentIndex + 1]

ValueCell(ln) == ln.cells[salesIndex + 1]

EmptyKey(ln) == TrimSpace(GroupCell(ln)) = ""

Parseable(ln) == Atoi(TrimSpace(ValueCell(ln))).ok

ParsedValue(ln) == Atoi(TrimSpace(ValueCell(ln))).val

\* the row is not skipped
Survives(ln) == ~ln.bad /\ EnoughCells(ln) /\ ~EmptyKey(ln) /\ Parseable(ln)

RECURSIVE SumOfSurvivors(_)
\* the exact sum of the parsed values of the rows that are not skipped
SumOfSurvivors(rows) ==
    IF Len(rows) = 0 THEN 0
    ELSE SumOfSurvivors(SubSeq(rows, 1, Len(rows) - 1))
         + (IF Survives(rows[Len(rows)]) THEN ParsedValue(rows[Len(rows)]) ELSE 0)

RECURSIVE SumOfMap(_)
SumOfMap(m) ==
    IF DOMAIN m = {} THEN 0
    ELSE LET k == CHOOSE x \in DOMAIN m : TRUE
         IN  m[k] + SumOfMap([x \in DOMAIN m \ {k} |-> m[x]])

RECURSIVE SumOfTotals(_)
SumOfTotals(summaries) ==
    IF Len(summaries) = 0 THEN 0
    ELSE SumOfTotals(SubSeq(summaries, 1, Len(summaries) - 1))
         + summaries[Len(summaries)].TotalSales

Succeeded == pc = "returned" /\ err = NoError

\* the next record of the input, when the loop is about to read one
AtRow == pc = "loop" /\ pos < Len(file.records)

NextRow == file.records[pos + 1]

(***************************************************************************)
(* C1: on every successful call the sum of the returned totals is the sum  *)
(* of the parsed values of the rows that were not skipped, and inside the  *)
(* loop the sum of the accumulator is the sum of the parsed values of the  *)
(* non-skipped rows read so far.                                           *)
(***************************************************************************)
C1_TotalsSumToParsedValues ==
    /\ pc \in {"loop", "finish"} => SumOfMap(departmentSales) = SumOfSurvivors(RowsRead)
    /\ Succeeded => SumOfTotals(result) = SumOfSurvivors(DataRows)

(***************************************************************************)
(* C2: a data row with fewer cells than max(groupIndex, valueIndex) + 1 is *)
(* skipped: the loop goes on to the next row and the accumulator is as it  *)
(* was.                                                                    *)
(***************************************************************************)
C2_ShortRowIsSkipped ==
    [][ (AtRow /\ ~NextRow.bad /\ ~EnoughCells(NextRow))
            => (pc' = "loop" /\ pos' = pos + 1 /\ departmentSales' = departmentSales) ]_vars

(***************************************************************************)
(* C3: a readable row with enough cells whose group cell is empty after    *)
(* trimming, or whose value cell does not parse, leaves the accumulator as *)
(* it was and the loop goes on to the next row; the empty-key check comes  *)
(* first, so a row failing both is reported as an empty department.        *)
(***************************************************************************)
SkippedForContent(ln) ==
    ~Unreadable(ln) /\ EnoughCells(ln) /\ (EmptyKey(ln) \/ ~Parseable(ln))

NoUnreadableRow == \A i \in 1..Len(DataRows) : ~Unreadable(DataRows[i])

SomeRowSurvives == \E i \in 1..Len(DataRows) : Survives(DataRows[i])

C4_EmptyResultIffNoSurvivor ==
    (pc = "returned" /\ HeaderResolves /\ NoUnreadableRow)
        => /\ (err.kind = "empty" /\ result = <<>>) <=> ~SomeRowSurvives
           /\ SomeRowSurvives => (err = NoError /\ Len(result) > 0)

\* a successful return whose only group has the total zero
C4_Witness ==
    /\ Succeeded
    /\ Len(result) = 1
    /\ result[1].TotalSales = 0

(***************************************************************************)
(* C7: when the n-th data row is the first one the reader cannot read, the *)
(* call returns the unreadable-row error naming row n + 1 and a nil        *)
(* result, whatever was accumulated before, and reads no row after it.     *)
(***************************************************************************)
SomeRowUnreadable == \E i \in 1..Len(DataRows) : Unreadable(DataRows[i])

FirstUnreadable ==
    CHOOSE n \in 1..Len(DataRows) :
        /\ Unreadable(DataRows[n])
        /\ \A i \in 1..(n - 1) : ~Unreadable(DataRows[i])

C7_UnreadableRowAborts ==
    (pc = "returned" /\ HeaderResolves /\ SomeRowUnreadable)
        => /\ err.kind = "row"
           /\ err.row = FirstUnreadable + 1
           /\ result = <<>>
           /\ pos = FirstUnreadable + 1

\* the third data row could not be read after two rows were accumulated,
\* and the call returned the error for row 4
C7_Witness ==
    /\ pc = "returned"
    /\ HeaderResolves
    /\ SomeRowUnreadable
    /\ FirstUnreadable = 3
    /\ Cardinality(DOMAIN departmentSales) = 2
    /\ err.kind = "row"

(***************************************************************************)
(* C8: in a successful result every group key appears in exactly one       *)
(* summary, and the keys are exactly the trimmed group cells of the rows   *)
(* that were not skipped, compared case-sensitively.                       *)
(***************************************************************************)
SurvivorKeys ==
    {TrimSpace(GroupCell(DataRows[i])) : i \in {j \in 1..Len(DataRows) : Survives(DataRows[j])}}

C8_KeysAreTrimmedGroupCells ==
    Succeeded
        => /\ \A i, j \in 1..Len(result) :
                  result[i].Department = result[j].Department => i = j
           /\ {result[i].Department : i \in 1..Len(result)} = SurvivorKeys

\* "A" and " A " were merged into one group and "a" kept apart
C8_Witness ==
    /\ Succeeded
    /\ {GroupCell(DataRows[i]) : i \in 1..Len(DataRows)} = {"A", " A ", "a"}
    /\ {result[i].Department : i \in 1..Len(result)} = {"A", "a"}

(***************************************************************************)
(* C9: a second call on the same input returns what the first returned:    *)
(* the same kind of error, or the same set of (group, total) pairs, the    *)
(* order of the slice ignored.                                             *)
(***************************************************************************)
Pairs(summaries) == {summaries[i] : i \in 1..Len(summaries)}

C9_SecondCallSameOutcome ==
    (run = 2 /\ pc = "returned")
        => /\ err = first.err
           /\ Len(result) = Len(first.result)
           /\ Pairs(result) = Pairs(first.result)

\* both calls succeeded and returned the summaries in different orders
C9_Witness ==
    /\ run = 2
    /\ Succeeded
    /\ Len(result) >= 2
    /\ result # first.result

(***************************************************************************)
(* Vocabulary of the properties of findColumnIndices: the synonyms, over   *)
(* the cell trimmed and lower-cased.                                       *)
(***************************************************************************)
Normalized(cell) == ToLower(TrimSpace(cell))

IsGroupSynonym(cell) ==
    \/ Normalized(cell) \in {"department", "department name", "dept"}
    \/ Contains(Normalized(cell), "department")

IsValueSynonym(cell) ==
    Normalized(cell) \in
        {"sales", "total_sales", "total sales", "number of sales", "amount", "revenue"}

GroupCells == {i \in 1..Len(header) : IsGroupSynonym(header[i])}

ValueCells == {i \in 1..Len(header) : IsValueSynonym(header[i])}

Least(S) == CHOOSE i \in S : \A j \in S : i <= j

(***************************************************************************)
(* C5: for a header with a group-synonym cell and a value-synonym cell,    *)
(* findColumnIndices returns no error and the smallest index of each role; *)
(* later cells of the same role do not change the result.                  *)
(***************************************************************************)
C5_FirstMatchingColumns ==
    (pc = "returned" /\ GroupCells # {} /\ ValueCells # {})
        => /\ err = NoError
           /\ departmentIndex = Least(GroupCells) - 1
           /\ salesIndex = Least(ValueCells) - 1

\* the value column comes first, and the group column found at index 1 is
\* followed by a second group candidate
C5_Witness ==
    /\ pc = "returned"
    /\ err = NoError
    /\ GroupCells = {2, 3}
    /\ salesIndex = 0
    /\ departmentIndex = 1

(***************************************************************************)
(* C6: findColumnIndices fails with the missing-group-column error exactly *)
(* when no cell matches the group synonyms, and with the missing-value-    *)
(* column error exactly when a group cell matched and no cell matches the  *)
(* value synonyms; with both absent the group error is the one reported.   *)
(***************************************************************************)
C6_MissingColumnErrors ==
    pc = "returned"
        => /\ err.cause = "department column not found in CSV header" <=> GroupCells = {}
           /\ err.cause = "sales column not found in CSV header"
                  <=> (GroupCells # {} /\ ValueCells = {})
           /\ err.cause # "nil" => (departmentIndex = -1 /\ salesIndex = -1)

\* neither column is in a header of three cells
C6_Witness ==
    /\ pc = "returned"
    /\ Len(header) = 3
    /\ GroupCells = {}
    /\ ValueCells = {}
    /\ err.cause = "department column not found in CSV header"

(***************************************************************************)
(* C10: SaveResultFile writes the header line, then one line               *)
(* "<group>,<total>" per summary in the order of its argument, the group   *)
(* key unquoted, every line ended by one newline and nothing after the     *)
(* last one.                                                               *)
(***************************************************************************)
NewlinesIn(s) == {k \in 1..Len(s) : Char(s, k) = "\n"}

RECURSIVE LinesOf(_)
\* the newline-terminated lines of s, without their newlines
LinesOf(s) ==
    IF NewlinesIn(s) = {} THEN <<>>
    ELSE LET k == Least(NewlinesIn(s))
         IN  <<SubSeq(s, 1, k - 1)>> \o LinesOf(SubSeq(s, k + 1, Len(s)))

RECURSIVE DecimalDigits(_)
\* the number of decimal digits of n >= 0
DecimalDigits(n) == IF n < 10 THEN 1 ELSE 1 + DecimalDigits(n \div 10)

\* str is the decimal numeral of n: it parses to n and has no sign or
\* digit to spare
IsNumeralOf(str, n) ==
    /\ Atoi(str) = [ok |-> TRUE, val |-> n]
    /\ Len(str) = IF n < 0 THEN 1 + DecimalDigits(0 - n) ELSE DecimalDigits(n)

IsLineOf(line, summary) ==
    LET g == Len(summary.Department)
    IN  /\ Len(line) >= g + 2
        /\ SubSeq(line, 1, g) = summary.Department
        /\ Char(line, g + 1) = ","
        /\ IsNumeralOf(SubSeq(line, g + 2, Len(line)), summary.TotalSales)

C10_ResultFileFormat ==
    (savePc = "returned" /\ saveErr = "nil")
        => /\ Len(content) > 0 /\ Char(content, Len(content)) = "\n"
           /\ Cardinality(NewlinesIn(content)) = Len(saved) + 1
           /\ LinesOf(content)[1] = "Department Name,Total Number of Sales"
           /\ \A i \in 1..Len(saved) : IsLineOf(LinesOf(content)[i + 1], saved[i])

\* three summaries were written, with a comma in a group key, a negative
\* total, and two different groups in the argument's order
C10_Witness ==
    /\ savePc = "returned"
    /\ saveErr = "nil"
    /\ Len(saved) = 3
    /\ saved[1].Department = "x,y"
    /\ saved[2].Department = "A"
    /\ saved[3].TotalSales < 0

(***************************************************************************)
(* C12: a data row with more cells than the header is accepted: the loop   *)
(* goes on to the next row, and when its group and value cells are valid   *)
(* the row is aggregated under its trimmed group cell.                     *)
(***************************************************************************)
ExtraCells(ln) == ~ln.bad /\ Len(ln.cells) > Len(HeaderCells)

C12_ExtraCellsAccepted ==
    [][ (AtRow /\ ExtraCells(NextRow))
            => /\ pc' = "loop"
               /\ pos' = pos + 1
               /\ Survives(NextRow) => TrimSpace(GroupCell(NextRow)) \in DOMAIN departmentSales' ]_vars

(***************************************************************************)
(* C13: when the header lacks a recognized group or value column, the call *)
(* returns the missing-column error having read the header row only: no    *)
(* data row is consumed, whatever the rows after the header are, and the   *)
(* error is never the unreadable-row or the empty-result one.              *)
(***************************************************************************)
HeaderLacksColumn ==
    /\ file.exists
    /\ Len(file.records) >= 1
    /\ ~file.records[1].bad
    /\ (GroupCells = {} \/ ValueCells = {})

C13_MissingColumnBeforeAnyRow ==
    /\ (pc = "returned" /\ HeaderLacksColumn)
           => /\ err.kind = "columns"
              /\ result = <<>>
              /\ pos = 1
    /\ pos > 1 => findColumnIndices(header).err = "nil"

\* a header without the columns, followed by a malformed row and two rows
\* that would be skipped, was reported as a missing column
C13_Witness ==
    /\ pc = "returned"
    /\ HeaderLacksColumn
    /\ Len(file.records) = 4
    /\ file.records[2].bad
    /\ err.kind = "columns"

(***************************************************************************)
(* C14: once the call has opened its input, the handle is released exactly *)
(* once by the time the call returns, on every exit path; while the call   *)
(* is running the handle is open, and no call returns with it open.        *)
(***************************************************************************)
C14_HandleReleasedOnce ==
    /\ pc \in {"header", "columns", "loop", "finish"} => (handle = "open" /\ closes = 0)
    /\ (pc = "returned" /\ err.kind \in {"header", "columns", "row", "empty", "nil"})
           => (handle = "closed" /\ closes = 1)
    /\ (pc = "returned" /\ err.kind = "open") => (handle = "none" /\ closes = 0)
    /\ pc = "returned"
           => err.kind \in {"open", "header", "columns", "row", "empty", "nil"}

\* the pass was aborted at an unreadable row after a row was accumulated,
\* and the handle was closed once
C14_Witness ==
    /\ pc = "returned"
    /\ err.kind = "row"
    /\ DOMAIN departmentSales # {}
    /\ handle = "closed"
    /\ closes = 1

(***************************************************************************)
(* The outcome of ProcessSalesCSV on file f when nothing else runs, as a   *)
(* function of the file: the error, or the set of (key, total) pairs.      *)
(***************************************************************************)
Outcome(e, summaries) == [err |-> e, pairs |-> Pairs(summaries)]

Failure(kind, row, cause) ==
    [err |-> [kind |-> kind, row |-> row, cause |-> cause], pairs |-> {}]

\* the data row contributes to key k
CountsFor(ln, di, si, k) ==
    /\ TrimSpace(ln.cells[di + 1]) = k
    /\ Atoi(TrimSpace(ln.cells[si + 1])).ok

RECURSIVE AloneSum(_, _, _, _)
AloneSum(rows, di, si, k) ==
    IF rows = <<>>
    THEN 0
    ELSE (IF CountsFor(rows[1], di, si, k)
          THEN Atoi(TrimSpace(rows[1].cells[si + 1])).val
          ELSE 0)
         + AloneSum(Tail(rows), di, si, k)

AloneKeys(rows, di, si) ==
    { k \in {TrimSpace(rows[i].cells[di + 1]) : i \in 1..Len(rows)} :
        k # "" /\ \E i \in 1..Len(rows) : CountsFor(rows[i], di, si, k) }

AloneOutcome(f) ==
    IF ~f.exists THEN Failure("open", 0, "nil")
    ELSE IF f.records = <<>> THEN Failure("header", 0, "EOF")
    ELSE IF f.records[1].bad THEN Failure("header", 0, "parse")
    ELSE LET h    == f.records[1].cells
             c    == findColumnIndices(h)
             rows == Tail(f.records)
             unreadable == {i \in 1..Len(rows) : rows[i].bad \/ Len(rows[i].cells) # Len(h)}
         IN  IF c.err # "nil" THEN Failure("columns", 0, c.err)
             ELSE IF unreadable # {}
             THEN LET i == CHOOSE j \in unreadable : \A l \in unreadable : j <= l
                  IN  Failure("row", i + 1, IF rows[i].bad THEN "parse" ELSE "fieldcount")
             ELSE LET keys == AloneKeys(rows, c.departmentIndex, c.salesIndex)
                  IN  IF keys = {} THEN Failure("empty", 0, "nil")
                      ELSE [err |-> NoError,
                            pairs |-> { [Department |-> k,
                                         TotalSales |-> Wrap(AloneSum(rows, c.departmentIndex,
                                                                      c.salesIndex, k))] :
                                        k \in keys }]

\* C15: two calls of ProcessSalesCSV on one service, interleaved in any way
\* step by step, each return the outcome of the call run alone on its file;
\* and a step of the running call leaves the locals of the suspended call
\* as they are, while a switch hands each call back exactly its own locals.
C15_InterleavedCallsIndependent ==
    /\ [](pc = "returned" => Outcome(err, result) = AloneOutcome(file))
    /\ [](other.pc = "returned" => Outcome(other.err, other.result) = AloneOutcome(other.file))
    /\ [][ /\ current' = current => other' = other
           /\ current' # current => (other' = ownState /\ ownState' = other) ]_vars

\* one call has returned its summaries while the other, on another file, is
\* suspended in its loop with rows already accumulated
C15_Witness ==
    /\ pc = "returned" /\ err = NoError /\ current = 2
    /\ other.pc = "loop" /\ other.pos = 2
    /\ DOMAIN other.departmentSales = {"A"} /\ other.departmentSales["A"] = 100
    /\ Pairs(result) = {[Department |-> "a", TotalSales |-> -10]}
    /\ Len(other.file.records) = 3

(***************************************************************************)
(* UploadCSV: the order of the steps, the codes and the totals of the      *)
(* response.                                                               *)
(***************************************************************************)
StepOrder == <<"getfile", "validate", "saveupload", "process", "saveresult", "respond">>

IsPrefix(p, q) == Len(p) <= Len(q) /\ p = SubSeq(q, 1, Len(p))

LastStep == steps[Len(steps)]

Responded == upPc = "done"

\* the steps run in the fixed order; one response per request; 400 after a
\* missing file or a failed validation, 500 after a failed save, processing
\* or result save, and nothing after the failing step; 200 only after every
\* step succeeded, with the number of summaries
UploadStepsAndCodes ==
    /\ IsPrefix(steps, StepOrder)
    /\ Len(responses) = (IF Responded THEN 1 ELSE 0)
    /\ Responded =>
          LET r == responses[1]
          IN  /\ LastStep = "getfile" => (r.code = 400 /\ ~request.hasFile)
              /\ LastStep = "validate" =>
                    (r.code = 400 /\ ValidateFile(request.filename) # "nil")
              /\ LastStep = "saveupload" => (r.code = 500 /\ ~file.exists)
              /\ LastStep = "process" =>
                    (r.code = 500 /\ err # NoError /\ savePc = "idle" /\ content = "")
              /\ LastStep = "saveresult" => (r.code = 500 /\ saveErr # "nil")
              /\ r.code = 200 <=> LastStep = "respond"
              /\ r.code = 200 =>
                    /\ request.hasFile
                    /\ ValidateFile(request.filename) = "nil"
                    /\ file.exists
                    /\ err = NoError
                    /\ saveErr = "nil"
                    /\ r.total_departments = Len(result)

\* total_sales is the sum of the totals of the summaries
TotalSalesIsSum ==
    (Responded /\ responses[1].code = 200) =>
        responses[1].total_sales = SumOfTotals(result)

\* C11: UploadCSV runs get file, validate, save upload, process, save
\* result, respond in that order; a missing file or a failed validation
\* ends the request with 400 and a failed save, processing or result save
\* with 500; no step runs after the failing one, and no result file is
\* written when processing fails; exactly one response is sent; 200 is sent
\* only when every step succeeded, with total_departments the number of
\* summaries and total_sales the sum of their totals.
C11_UploadPipeline ==
    /\ UploadStepsAndCodes
    /\ TotalSalesIsSum

=============================================================================
